---- MODULE Spec2Model ----
(***************************************************************************)
(* A model of the moklog build pipeline (src/src/injest/*.rs, main.rs).    *)
(*                                                                         *)
(* The module holds several specifications over one set of variables, one  *)
(* per part of the pipeline:                                               *)
(*   SpecPrune   the prune loop of build_site over the directory tree      *)
(*   SpecIngest  the theme's static files and the content walk of          *)
(*               build_site (filter_entry, directory checks, files map)    *)
(*   SpecAsset   hash_file, new_filename and process_static_file applied   *)
(*               to payloads registered under one file name                *)
(*   SpecSession concurrent calls of update_site_content                   *)
(*   SpecHooks   the Rhai / shortcode hooks registered by build_site       *)
(* A specification leaves the variables of the other parts unchanged.      *)
(***************************************************************************)
EXTENDS Integers, Sequences, FiniteSets, TLC

(***************************************************************************)
(* Bounds of the model.                                                    *)
(***************************************************************************)
MaxNodes == 4
MaxPasses == 3
MaxRenders == 2
MaxCalls == 3
MaxRequests == 3
MaxNameParts == 3
MaxLen == 2
MaxThemeFiles == 2
MaxEntries == 2
MaxDirs == 3
MaxSiteDocs == 2
MaxLines == 4
MaxSnippets == 1
MaxWalkDirs == 1
MaxDirFiles == 2
MaxItems == 4

Range(s) == {s[i] : i \in 1..Len(s)}

(***************************************************************************)
(* id_tree::Tree<LeafPath>: an arena of nodes with parent and ordered      *)
(* children; NodeId 0 stands for "no node" (Option::None).                 *)
(***************************************************************************)
Nodes == 1..MaxNodes
NoNode == 0
DataNone == "None"
LeafPathTypes == {"Page"}

VARIABLES
    fs_tree,      \* build_site: fs_tree  (nodes, parent, children, data)
    fs_root_id,   \* build_site: fs_root_id (NoNode when no directory was inserted)
    pc,           \* position of build_site
    passes,       \* iterations of the prune loop so far
    times_exec,   \* hook -> its times_exec counter (domain: the registered hooks)
    inv,          \* render -> the hook invocation it is executing
    hooklog,      \* hook -> its history of loads ("L", value passed) and returns
    build_mutex,  \* State::build_mutex: the request holding it, 0 when free
    session,      \* request -> position of its update_site_content call
    asset_name,   \* the file name under which payloads are registered
    reg,          \* the registrations made so far: payload, new_filename, record
    theme_static,    \* the files of the theme's static directory, in walk order
    content,         \* the entries of the content root the walker has yet to reach
    template_files,  \* SiteTheme.files: key -> StaticFile
    files,           \* build_site's files: key -> StaticFile
    fs_path_store,   \* the paths of the directories inserted into the tree
    visited,         \* what became of each file and entry visited so far
    dir_path,        \* fs_path_store: node -> the path of its directory
    node_doc,        \* node -> the bytes of its index document (LeafPathData.data)
    cat_todo,        \* the entries the category pass has yet to be handed
    site_categories, \* build_site: site_categories (key -> category config)
    categories,      \* build.rs:485, the second map build_site declares
    cat_log,         \* the nodes the category pass looked up, with what happened
    render_todo,     \* the documents the render loop has yet to reach
    render_log,      \* the documents the render loop reached, with what happened
    contents,        \* the lines of a markdown body
    table_of_contents, \* the indices of the lines passed on as headings
    theme_dir,       \* the theme directory build_site_theme is given
    template,        \* the SiteTheme build_site is given
    leaf_data,       \* the data of the fs_tree node of every stored directory
    element,         \* the href and src attributes of an element
    mapped,          \* what mapping the linked file into memory gives
    rewritten,       \* the attributes after static_file_rewrite_element
    document,        \* the elements and texts of a rendered document
    summary          \* the indices of those the summary keeps

pruneVars == <<fs_tree, fs_root_id, pc, passes>>
hookVars == <<times_exec, inv, hooklog>>
sessionVars == <<build_mutex, session>>
assetVars == <<asset_name, reg>>
ingestVars == <<theme_static, content, template_files, files, fs_path_store, visited>>
passVars == <<dir_path, node_doc, cat_todo, site_categories, categories, cat_log>>
renderVars == <<render_todo, render_log>>
tocVars == <<contents, table_of_contents>>
themeVars == <<theme_dir, template>>
walkVars == <<leaf_data>>
rewriteVars == <<element, mapped, rewritten>>
summaryVars == <<document, summary>>

EmptyTree ==
    [nodes |-> {},
     parent |-> [n \in Nodes |-> NoNode],
     children |-> [n \in Nodes |-> <<>>],
     data |-> [n \in Nodes |-> DataNone]]

\* children of p in insertion order (UnderNode appends), for a parent map
ChildSeq(par, k, p) ==
    LET F[i \in 0..k] ==
            IF i = 0 THEN <<>>
            ELSE IF i >= 2 /\ par[i] = p THEN Append(F[i - 1], i) ELSE F[i - 1]
    IN F[k]

\* the trees the walk can hand over: node 1 is the root, every later
\* directory was inserted under a directory visited before it
WalkTrees ==
    {EmptyTree} \cup
    UNION {
      { [nodes |-> 1..k,
         parent |-> [n \in Nodes |-> IF n \in 2..k THEN par[n] ELSE NoNode],
         children |-> [n \in Nodes |-> IF n \in 1..k THEN ChildSeq(par, k, n) ELSE <<>>],
         data |-> [n \in Nodes |-> IF n \in 1..k THEN dat[n] ELSE DataNone]]
        : par \in {f \in [2..k -> 1..k] : \A n \in 2..k : f[n] < n},
          dat \in [1..k -> LeafPathTypes \cup {DataNone}] }
      : k \in 1..MaxNodes }

RECURSIVE Descendants(_, _)
\* the node n and every node of its subtree
Descendants(t, n) ==
    {n} \cup UNION {Descendants(t, t.children[n][i]) : i \in 1..Len(t.children[n])}

RECURSIVE ConcatPost(_, _, _)
RECURSIVE traverse_post_order_ids(_, _)
ConcatPost(t, cs, i) ==
    IF i > Len(cs) THEN <<>>
    ELSE traverse_post_order_ids(t, cs[i]) \o ConcatPost(t, cs, i + 1)
\* Tree::traverse_post_order_ids: children (in order) before their parent
traverse_post_order_ids(t, n) == ConcatPost(t, t.children[n], 1) \o <<n>>

\* Tree::remove_node(id, RemoveBehavior::DropChildren): an id that is no
\* longer valid is an Err (ignored by the caller) and changes nothing
remove_node(t, n) ==
    IF n \notin t.nodes THEN t
    ELSE LET gone == Descendants(t, n) IN
        [nodes |-> t.nodes \ gone,
         parent |-> [m \in Nodes |-> IF m \in gone THEN NoNode ELSE t.parent[m]],
         children |-> [m \in Nodes |->
             IF m \in gone THEN <<>>
             ELSE SelectSeq(t.children[m], LAMBDA c : c \notin gone)],
         data |-> [m \in Nodes |-> IF m \in gone THEN DataNone ELSE t.data[m]]]

IsBadLeafOnly(t, n) == t.data[n] = DataNone /\ t.children[n] = <<>>
\* build.rs:492  data.data().data.is_none()
IsBad(t, n) == t.data[n] = DataNone

\* build.rs:489-495  the scan of one loop iteration
bad_paths(t, rid) == SelectSeq(traverse_post_order_ids(t, rid), LAMBDA n : IsBad(t, n))

RECURSIVE RemoveEach(_, _, _, _)
RemoveEach(t, rid, bad, i) ==
    IF i > Len(bad) THEN t
    ELSE RemoveEach(IF bad[i] # rid THEN remove_node(t, bad[i]) ELSE t, rid, bad, i + 1)

RemoveFirstBad(t, rid, bad) ==
    IF bad # <<>> /\ bad[1] # rid THEN remove_node(t, bad[1]) ELSE t
\* build.rs:499-503  for bad in bad_paths { if bad != fs_rid { remove_node } }
RemoveBad(t, rid, bad) == RemoveEach(t, rid, bad, 1)

\* one iteration of the prune loop that does not break
PrunePass(t, rid) == RemoveBad(t, rid, bad_paths(t, rid))

HooksIdle ==
    /\ times_exec = <<>>
    /\ inv = <<>>
    /\ hooklog = <<>>

SessionIdle ==
    /\ build_mutex = 0
    /\ session = <<>>

AssetIdle ==
    /\ asset_name = <<>>
    /\ reg = <<>>

IngestIdle ==
    /\ theme_static = <<>>
    /\ content = <<>>
    /\ template_files = <<>>
    /\ files = <<>>
    /\ fs_path_store = {}
    /\ visited = <<>>

PassIdle ==
    /\ dir_path = <<>>
    /\ node_doc = <<>>
    /\ cat_todo = <<>>
    /\ site_categories = <<>>
    /\ categories = <<>>
    /\ cat_log = <<>>

RenderIdle ==
    /\ render_todo = <<>>
    /\ render_log = <<>>

SummaryIdle ==
    /\ document = <<>>
    /\ summary = <<>>

RewriteIdle ==
    /\ element = <<>>
    /\ mapped = <<>>
    /\ rewritten = <<>>

WalkIdle == leaf_data = <<>>

ThemeIdle ==
    /\ theme_dir = <<>>
    /\ template = <<>>

TocIdle ==
    /\ contents = <<>>
    /\ table_of_contents = <<>>

InitPrune ==
    /\ HooksIdle
    /\ SessionIdle
    /\ AssetIdle
    /\ IngestIdle
    /\ PassIdle
    /\ RenderIdle
    /\ TocIdle
    /\ ThemeIdle
    /\ WalkIdle
    /\ RewriteIdle
    /\ SummaryIdle
    /\ fs_tree \in WalkTrees
    /\ fs_root_id = IF fs_tree.nodes = {} THEN NoNode ELSE 1
    /\ pc = "prune"
    /\ passes = 0

\* build.rs:487  if let Some(fs_rid) = fs_root_id  (else: nothing to do)
PruneSkip ==
    /\ pc = "prune"
    /\ fs_root_id = NoNode
    /\ pc' = "done"
    /\ UNCHANGED <<fs_tree, fs_root_id, passes>>
    /\ UNCHANGED <<hookVars, sessionVars, assetVars, ingestVars, passVars, renderVars, tocVars, themeVars, walkVars, rewriteVars, summaryVars>>

\* build.rs:488-504  one iteration that removes the bad paths
PruneIteration ==
    /\ pc = "prune"
    /\ fs_root_id # NoNode
    /\ bad_paths(fs_tree, fs_root_id) # <<>>
    /\ passes < MaxPasses
    /\ fs_tree' = PrunePass(fs_tree, fs_root_id)
    /\ passes' = passes + 1
    /\ UNCHANGED <<fs_root_id, pc>>
    /\ UNCHANGED <<hookVars, sessionVars, assetVars, ingestVars, passVars, renderVars, tocVars, themeVars, walkVars, rewriteVars, summaryVars>>

\* build.rs:496-498  if bad_paths.len() == 0 { break }
PruneBreak ==
    /\ pc = "prune"
    /\ fs_root_id # NoNode
    /\ bad_paths(fs_tree, fs_root_id) = <<>>
    /\ pc' = "pruned"
    /\ UNCHANGED <<fs_tree, fs_root_id, passes>>
    /\ UNCHANGED <<hookVars, sessionVars, assetVars, ingestVars, passVars, renderVars, tocVars, themeVars, walkVars, rewriteVars, summaryVars>>


(***************************************************************************)
(* The scripting hooks build_site registers (RhaiFilter, RhaiTester,       *)
(* RhaiFunction, Shortcode).  Each struct owns an AtomicU64 times_exec.    *)
(* A hook method loads the counter, runs the script or sub-template and,   *)
(* when that returned Ok, adds one; the `?` returns before the fetch_add   *)
(* when it failed.  The methods take &self, so invocations of several      *)
(* renders interleave between the load and the fetch_add.                  *)
(***************************************************************************)
ThemeFilters == {"a", "b"}     \* template.filters
ThemeTesters == {"a"}          \* template.testers
ThemeFunctions == {"a"}        \* template.functions
ThemeShortcodes == {"a"}       \* template.shortcode

HooksOf(kind, names) == {<<kind, n>> : n \in names}
AllHooks ==
    HooksOf("filter", ThemeFilters) \cup HooksOf("tester", ThemeTesters)
        \cup HooksOf("function", ThemeFunctions)
        \cup HooksOf("shortcode", ThemeShortcodes)
Renders == 1..MaxRenders
Registered == DOMAIN times_exec
IdleInv == [pc |-> "idle", hook |-> <<"none", "">>, exectimes |-> 0]

\* AtomicU64::new(0) in the struct a register_* call is given
NewHook(te, h) == [g \in DOMAIN te \cup {h} |-> IF g = h THEN 0 ELSE te[g]]

LoadAfterIncrement(te, h) == te[h] + 1
\* self.times_exec.load(Ordering::SeqCst)
Load(te, h) == te[h]

FetchAddShared(te, h) == [g \in DOMAIN te |-> te[g] + 1]
\* self.times_exec.fetch_add(1, Ordering::SeqCst)
FetchAdd(te, h) == [te EXCEPT ![h] = @ + 1]

ReturnErrCounted(te, h) == [te EXCEPT ![h] = @ + 1]
\* .map_err(..)? : the error is returned, the counters stay as they are
ReturnErr(te, h) == te

LoadsOf(log) == SelectSeq(log, LAMBDA e : e[1] = "L")
TotalLoads ==
    LET RECURSIVE Sum(_)
        Sum(S) == IF S = {} THEN 0
                  ELSE LET h == CHOOSE x \in S : TRUE
                       IN Len(LoadsOf(hooklog[h])) + Sum(S \ {h})
    IN Sum(DOMAIN hooklog)

InitHooks ==
    /\ fs_tree = EmptyTree
    /\ fs_root_id = NoNode
    /\ pc = "register"
    /\ passes = 0
    /\ times_exec = <<>>
    /\ inv = [r \in Renders |-> IdleInv]
    /\ hooklog = <<>>
    /\ SessionIdle
    /\ AssetIdle
    /\ IngestIdle
    /\ PassIdle
    /\ RenderIdle
    /\ TocIdle
    /\ ThemeIdle
    /\ WalkIdle
    /\ RewriteIdle
    /\ SummaryIdle

Register(h) ==
    /\ pc = "register"
    /\ h \notin Registered
    /\ times_exec' = NewHook(times_exec, h)
    /\ hooklog' = [g \in DOMAIN hooklog \cup {h} |-> IF g = h THEN <<>> ELSE hooklog[g]]
    /\ UNCHANGED <<inv, pc>>
    /\ UNCHANGED <<fs_tree, fs_root_id, passes, sessionVars, assetVars, ingestVars, passVars, renderVars, tocVars, themeVars, walkVars, rewriteVars, summaryVars>>

\* build.rs:434-445  for filter in template.filters.iter()
RegisterFilter == \E n \in ThemeFilters : Register(<<"filter", n>>)

\* build.rs:447-458  for test in template.testers.iter()
RegisterTester ==
    /\ HooksOf("filter", ThemeFilters) \subseteq Registered
    /\ \E n \in ThemeTesters : Register(<<"tester", n>>)

\* build.rs:460-471  for function in template.functions.iter()
RegisterFunction ==
    /\ HooksOf("tester", ThemeTesters) \subseteq Registered
    /\ \E n \in ThemeFunctions : Register(<<"function", n>>)

\* build.rs:473-483  for shortcode in template.shortcode.iter()
RegisterShortcode ==
    /\ HooksOf("function", ThemeFunctions) \subseteq Registered
    /\ \E n \in ThemeShortcodes : Register(<<"shortcode", n>>)

\* build.rs:485  the registration loops are over; documents are rendered
StartRender ==
    /\ pc = "register"
    /\ Registered = AllHooks
    /\ pc' = "render"
    /\ UNCHANGED <<times_exec, inv, hooklog>>
    /\ UNCHANGED <<fs_tree, fs_root_id, passes, sessionVars, assetVars, ingestVars, passVars, renderVars, tocVars, themeVars, walkVars, rewriteVars, summaryVars>>

\* build.rs:84, 104, 124, 146  the counter is read and handed to the script
HookLoad(r, h) ==
    /\ pc = "render"
    /\ inv[r].pc = "idle"
    /\ h \in Registered
    /\ TotalLoads < MaxCalls
    /\ inv' = [inv EXCEPT ![r] =
                 [pc |-> "loaded", hook |-> h, exectimes |-> Load(times_exec, h)]]
    /\ hooklog' = [hooklog EXCEPT ![h] = Append(@, <<"L", Load(times_exec, h)>>)]
    /\ UNCHANGED <<times_exec, pc>>
    /\ UNCHANGED <<fs_tree, fs_root_id, passes, sessionVars, assetVars, ingestVars, passVars, renderVars, tocVars, themeVars, walkVars, rewriteVars, summaryVars>>

\* build.rs:85-88, 105-108, 125-128, 148  the script or sub-template failed:
\* `?` returns the error, the fetch_add is not reached
HookFail(r) ==
    /\ inv[r].pc = "loaded"
    /\ inv' = [inv EXCEPT ![r] = IdleInv]
    /\ hooklog' = [hooklog EXCEPT ![inv[r].hook] = Append(@, <<"F", inv[r].exectimes>>)]
    /\ times_exec' = ReturnErr(times_exec, inv[r].hook)
    /\ UNCHANGED pc
    /\ UNCHANGED <<fs_tree, fs_root_id, passes, sessionVars, assetVars, ingestVars, passVars, renderVars, tocVars, themeVars, walkVars, rewriteVars, summaryVars>>

\* build.rs:89-91, 109-111, 129-131, 149-150  Ok: fetch_add(1), return
HookReturn(r) ==
    /\ inv[r].pc = "loaded"
    /\ times_exec' = FetchAdd(times_exec, inv[r].hook)
    /\ inv' = [inv EXCEPT ![r] = IdleInv]
    /\ hooklog' = [hooklog EXCEPT ![inv[r].hook] = Append(@, <<"S", inv[r].exectimes>>)]
    /\ UNCHANGED pc
    /\ UNCHANGED <<fs_tree, fs_root_id, passes, sessionVars, assetVars, ingestVars, passVars, renderVars, tocVars, themeVars, walkVars, rewriteVars, summaryVars>>

NextHooks ==
    \/ RegisterFilter
    \/ RegisterTester
    \/ RegisterFunction
    \/ RegisterShortcode
    \/ StartRender
    \/ \E r \in Renders, h \in AllHooks : HookLoad(r, h)
    \/ \E r \in Renders : HookFail(r)
    \/ \E r \in Renders : HookReturn(r)


(***************************************************************************)
(* Build sessions: update_site_content(state: Arc<State>) is an async fn;  *)
(* every .await is a point where another request's call may run.  State    *)
(* holds build_mutex: Mutex<()> (main.rs:33); no code locks it.            *)
(***************************************************************************)
Requests == 1..MaxRequests
RunningPhases == {"load_db", "templates", "content_walk", "render"}

InitSession ==
    /\ fs_tree = EmptyTree
    /\ fs_root_id = NoNode
    /\ pc = "idle"
    /\ passes = 0
    /\ HooksIdle
    /\ AssetIdle
    /\ IngestIdle
    /\ PassIdle
    /\ RenderIdle
    /\ TocIdle
    /\ ThemeIdle
    /\ WalkIdle
    /\ RewriteIdle
    /\ SummaryIdle
    /\ build_mutex = 0
    /\ session = [q \in Requests |-> "idle"]

\* injest.rs:134-151  the call starts: the database rows and pengignore are read
UpdateSiteContentCall(q) ==
    /\ session[q] = "idle"
    /\ session' = [session EXCEPT ![q] = "load_db"]
    /\ UNCHANGED <<build_mutex, pruneVars, hookVars, assetVars, ingestVars, passVars, renderVars, tocVars, themeVars, walkVars, rewriteVars, summaryVars>>

\* injest.rs:153-215  the templates directory is walked and processed
WalkTemplates(q) ==
    /\ session[q] = "load_db"
    /\ session' = [session EXCEPT ![q] = "templates"]
    /\ UNCHANGED <<build_mutex, pruneVars, hookVars, assetVars, ingestVars, passVars, renderVars, tocVars, themeVars, walkVars, rewriteVars, summaryVars>>

\* injest.rs:217-288  the walk over the site content
WalkContent(q) ==
    /\ session[q] = "templates"
    /\ session' = [session EXCEPT ![q] = "content_walk"]
    /\ UNCHANGED <<build_mutex, pruneVars, hookVars, assetVars, ingestVars, passVars, renderVars, tocVars, themeVars, walkVars, rewriteVars, summaryVars>>

\* injest.rs:290-456  the documents are rendered
RenderItems(q) ==
    /\ session[q] = "content_walk"
    /\ session' = [session EXCEPT ![q] = "render"]
    /\ UNCHANGED <<build_mutex, pruneVars, hookVars, assetVars, ingestVars, passVars, renderVars, tocVars, themeVars, walkVars, rewriteVars, summaryVars>>

\* injest.rs:457  the call returns
UpdateSiteContentReturn(q) ==
    /\ session[q] = "render"
    /\ session' = [session EXCEPT ![q] = "returned"]
    /\ UNCHANGED <<build_mutex, pruneVars, hookVars, assetVars, ingestVars, passVars, renderVars, tocVars, themeVars, walkVars, rewriteVars, summaryVars>>

\* injest.rs:137-313  a `?` returns the error of a failed read early
UpdateSiteContentFail(q) ==
    /\ session[q] \in RunningPhases
    /\ session' = [session EXCEPT ![q] = "returned"]
    /\ UNCHANGED <<build_mutex, pruneVars, hookVars, assetVars, ingestVars, passVars, renderVars, tocVars, themeVars, walkVars, rewriteVars, summaryVars>>

NextSession ==
    \E q \in Requests :
        \/ UpdateSiteContentCall(q)
        \/ WalkTemplates(q)
        \/ WalkContent(q)
        \/ RenderItems(q)
        \/ UpdateSiteContentReturn(q)
        \/ UpdateSiteContentFail(q)


(***************************************************************************)
(* The asset store's functions (static_file.rs).                           *)
(*                                                                         *)
(* A u64 is the tuple of its eight base-256 digits, most significant       *)
(* first; the arithmetic of seahash works on limbs, least significant      *)
(* first, modulo 2^64.  Strings and file names are tuples of characters,   *)
(* byte payloads tuples of numbers 0..255.                                 *)
(***************************************************************************)
\* Option<T>: None is the empty tuple and Some(x) the tuple holding x
None == <<>>
Some(x) == <<x>>
Reverse(s) == [i \in 1..Len(s) |-> s[Len(s) + 1 - i]]

RECURSIVE Pow2(_)
Pow2(n) == IF n = 0 THEN 1 ELSE 2 * Pow2(n - 1)

RECURSIVE XorByte(_, _)
XorByte(x, y) ==
    IF x = 0 THEN y
    ELSE IF y = 0 THEN x
    ELSE ((x + y) % 2) + 2 * XorByte(x \div 2, y \div 2)

\* the eight limbs F(1), ..., F(8) as a tuple
Limbs(F(_)) == [k \in 1..8 |-> F(k)] \o <<>>

\* u64 ^ u64
XorW(a, b) == Limbs(LAMBDA i : XorByte(a[i], b[i]))

\* u64::wrapping_mul
MulW(a, b) ==
    LET Col(k) ==
            LET S[i \in 0..k] == IF i = 0 THEN 0 ELSE S[i - 1] + a[i] * b[k + 1 - i]
            IN S[k]
        R[k \in 1..8] == Col(k) + (IF k = 1 THEN 0 ELSE R[k - 1] \div 256)
    IN Limbs(LAMBDA k : R[k] % 256)

\* u64 >> n for n in 0..63
ShrW(a, n) ==
    LET q == n \div 8
        r == n % 8
        L(i) == IF i <= 8 THEN a[i] ELSE 0
    IN Limbs(LAMBDA i :
          ((L(i + q) \div Pow2(r)) + (L(i + q + 1) % Pow2(r)) * Pow2(8 - r)) % 256)

\* 0x6eed0e9da4d94a4f, the multiplier of seahash's diffuse
DiffusePrime == <<79, 74, 217, 164, 157, 14, 237, 110>>
\* the four seeds of seahash::hash
SeedLanes ==
    << <<124, 103, 13, 155, 232, 31, 241, 22>>,
       <<108, 200, 230, 216, 147, 167, 128, 180>>,
       <<201, 235, 120, 240, 170, 229, 226, 111>>,
       <<129, 147, 37, 197, 164, 148, 249, 20>> >>

\* seahash::helper::diffuse, after the first multiplication:
\* x ^= (x >> 32) >> (x >> 60); x *= p
DiffuseShift(x) ==
    MulW(XorW(x, ShrW(ShrW(x, 32), x[8] \div 16)), DiffusePrime)
\* seahash::helper::diffuse
diffuse(x) == DiffuseShift(MulW(x, DiffusePrime))

\* the i-th 8-byte word of the buffer, read little-endian, zero-padded
ReadWord(buf, i) ==
    Limbs(LAMBDA k : IF 8 * (i - 1) + k <= Len(buf) THEN buf[8 * (i - 1) + k] ELSE 0)

\* a length (below 2^24) as a u64
LenLimbs(n) ==
    Limbs(LAMBDA k : IF k <= 3 THEN (n \div Pow2(8 * (k - 1))) % 256 ELSE 0)

RECURSIVE Lanes(_, _)
\* the four lanes after the first i words: word i goes to lane (i - 1) % 4,
\* lane = diffuse(lane ^ word)
Lanes(buf, i) ==
    IF i = 0 THEN SeedLanes
    ELSE [Lanes(buf, i - 1) EXCEPT ![((i - 1) % 4) + 1] = diffuse(XorW(@, ReadWord(buf, i)))]
\* diffuse(a ^ b ^ c ^ d ^ len)
Finalize(s, len) ==
    diffuse(XorW(XorW(XorW(s[1], s[2]), XorW(s[3], s[4])), LenLimbs(len)))
\* seahash::hash; the value is written most significant byte first
seahash(buf) == Reverse(Finalize(Lanes(buf, (Len(buf) + 7) \div 8), Len(buf)))

HashLengthOnly(file) == Reverse(diffuse(LenLimbs(Len(file))))
\* static_file.rs:28-30
hash_file(file) == seahash(file)

\* u64::to_le_bytes
to_le_bytes(h) == Reverse(h)

Base64Alphabet ==
    <<"A", "B", "C", "D", "E", "F", "G", "H", "I", "J", "K", "L", "M", "N", "O", "P",
      "Q", "R", "S", "T", "U", "V", "W", "X", "Y", "Z", "a", "b", "c", "d", "e", "f",
      "g", "h", "i", "j", "k", "l", "m", "n", "o", "p", "q", "r", "s", "t", "u", "v",
      "w", "x", "y", "z", "0", "1", "2", "3", "4", "5", "6", "7", "8", "9", "+", "/">>
B64(i) == Base64Alphabet[i + 1]

RECURSIVE base64_encode(_)
\* base64::encode: the standard alphabet, padded with "="
base64_encode(bytes) ==
    IF Len(bytes) = 0 THEN <<>>
    ELSE IF Len(bytes) = 1 THEN
        <<B64(bytes[1] \div 4), B64((bytes[1] % 4) * 16), "=", "=">>
    ELSE IF Len(bytes) = 2 THEN
        <<B64(bytes[1] \div 4), B64((bytes[1] % 4) * 16 + bytes[2] \div 16),
          B64((bytes[2] % 16) * 4), "=">>
    ELSE <<B64(bytes[1] \div 4), B64((bytes[1] % 4) * 16 + bytes[2] \div 16),
           B64((bytes[2] % 16) * 4 + bytes[3] \div 64), B64(bytes[3] % 64)>>
         \o base64_encode(SubSeq(bytes, 4, Len(bytes)))

\* the components of a path that Path::file_name looks at: "" and "." are
\* not components
RECURSIVE CutPath(_, _, _, _)
\* done: the components read so far; cur: the component being read
CutPath(path, i, done, cur) ==
    LET closed == IF cur \in {<<>>, <<".">>} THEN done ELSE Append(done, cur)
    IN IF i > Len(path) THEN closed
       ELSE IF path[i] = "/" THEN CutPath(path, i + 1, closed, <<>>)
       ELSE CutPath(path, i + 1, done, Append(cur, path[i]))
PathComponents(path) == CutPath(path, 1, <<>>, <<>>)

\* Path::file_name: the last component, None when there is none or it is ".."
file_name(path) ==
    LET cs == PathComponents(path)
    IN IF cs = <<>> \/ cs[Len(cs)] = <<".", ".">> THEN None ELSE Some(cs[Len(cs)])

FirstIndex(s, c) ==
    IF c \in Range(s) THEN CHOOSE i \in 1..Len(s) : s[i] = c /\ \A j \in 1..(i - 1) : s[j] # c
    ELSE 0
LastIndex(s, c) ==
    IF c \in Range(s) THEN CHOOSE i \in 1..Len(s) : s[i] = c /\ \A j \in (i + 1)..Len(s) : s[j] # c
    ELSE 0

rsplit_once(s, c) ==
    IF LastIndex(s, c) = 0 THEN None
    ELSE Some(<<SubSeq(s, 1, LastIndex(s, c) - 1), SubSeq(s, LastIndex(s, c) + 1, Len(s))>>)
\* str::split_once: around the first occurrence of the delimiter
split_once(s, c) ==
    IF FirstIndex(s, c) = 0 THEN None
    ELSE Some(<<SubSeq(s, 1, FirstIndex(s, c) - 1), SubSeq(s, FirstIndex(s, c) + 1, Len(s))>>)

\* static_file.rs:32-41
new_filename(file, filename) ==
    LET hash == hash_file(file)
        base64 == base64_encode(to_le_bytes(hash))
        fname == file_name(filename)
    IN IF fname = None THEN None
       ELSE LET split == split_once(fname[1], ".")
            IN IF split = None THEN None
               ELSE Some([hash |-> hash,
                          name |-> split[1][1] \o <<".">> \o base64 \o <<".">> \o split[1][2]])

\* PathBuf::with_file_name: the last component replaced
with_file_name(path, name) ==
    IF LastIndex(path, "/") = 0 THEN name
    ELSE SubSeq(path, 1, LastIndex(path, "/")) \o name

RECURSIVE JoinPath(_)
JoinPath(cs) ==
    IF cs = <<>> THEN <<>>
    ELSE IF Len(cs) = 1 THEN cs[1]
    ELSE cs[1] \o <<"/">> \o JoinPath(Tail(cs))

\* injest/mod.rs:13-18  RelativePath::strip_prefix: the item without the
\* base in front of it, an error (None) when the base is not a prefix of it
path_relativizie(base, item) ==
    LET b == PathComponents(base)
        i == PathComponents(item)
    IN IF Len(b) <= Len(i) /\ SubSeq(i, 1, Len(b)) = b
       THEN Some(JoinPath(SubSeq(i, Len(b) + 1, Len(i))))
       ELSE None

\* the length test of a static file
PublishAnyLength(len) == TRUE
\* static_file.rs:61, templates.rs:295
IsPublishable(len) == len # 0

\* static_file.rs:59-81  the base handed to path_relativizie is the file
\* itself; an error of path_relativizie ends the function without a record
process_static_file(file) ==
    IF IsPublishable(Len(file.bytes))
    THEN LET last == file_name(file.path)[1]
             nf == new_filename(file.bytes, last)
         IN IF nf # None
            THEN LET filename == with_file_name(file.path, nf[1].name)
                     new_name == path_relativizie(file.path, filename)
                 IN IF new_name = None THEN None
                    ELSE Some([hash |-> nf[1].hash,
                               file |-> [file_name |-> new_name[1],
                                         path |-> file.path]])
            ELSE None
    ELSE None

SeqsUpTo(S, n) == UNION {[1..k -> S] : k \in 0..n}
NameParts == {<<>>, <<"a">>}
ByteValues == {0, 255}
RECURSIVE JoinDots(_)
JoinDots(parts) ==
    IF Len(parts) = 1 THEN parts[1]
    ELSE parts[1] \o <<".">> \o JoinDots(Tail(parts))
\* names a directory entry can have: up to MaxNameParts parts joined by dots
AssetNames ==
    {JoinDots(parts) : parts \in SeqsUpTo(NameParts, MaxNameParts) \ {<<>>}}
        \ {<<>>, <<".">>, <<".", ".">>}
Payloads == SeqsUpTo(ByteValues, MaxLen)
AssetDir == <<"d", "/">>

InitAsset ==
    /\ fs_tree = EmptyTree
    /\ fs_root_id = NoNode
    /\ pc = "asset"
    /\ passes = 0
    /\ HooksIdle
    /\ SessionIdle
    /\ asset_name \in AssetNames
    /\ reg = <<>>
    /\ IngestIdle
    /\ PassIdle
    /\ RenderIdle
    /\ TocIdle
    /\ ThemeIdle
    /\ WalkIdle
    /\ RewriteIdle
    /\ SummaryIdle

Registration(bytes) ==
    [bytes |-> bytes,
     nf |-> new_filename(bytes, asset_name),
     psf |-> process_static_file([path |-> AssetDir \o asset_name, bytes |-> bytes])]

\* static_file.rs:59-81  a file named asset_name is registered
RegisterFirst ==
    /\ reg = <<>>
    /\ \E bytes \in Payloads : reg' = <<Registration(bytes)>>
    /\ UNCHANGED <<asset_name, pruneVars, hookVars, sessionVars, ingestVars, passVars, renderVars, tocVars, themeVars, walkVars, rewriteVars, summaryVars>>

\* static_file.rs:59-81  the file is registered again, with any payload
RegisterSecond ==
    /\ Len(reg) = 1
    /\ \E bytes \in Payloads : reg' = Append(reg, Registration(bytes))
    /\ UNCHANGED <<asset_name, pruneVars, hookVars, sessionVars, ingestVars, passVars, renderVars, tocVars, themeVars, walkVars, rewriteVars, summaryVars>>

NextAsset == RegisterFirst \/ RegisterSecond

(***************************************************************************)
(* Loading the theme's static files and walking the content root.          *)
(* A key/value map is a function; a path is its characters.                *)
(***************************************************************************)
MapInsert(m, k, v) == [x \in DOMAIN m \cup {k} |-> IF x = k THEN v ELSE m[x]]

\* build.rs:255
RESERVED_NAMES ==
    { <<"t", "e", "m", "p", "l", "a", "t", "e">>, <<"f", "i", "l", "e", "s">>,
      <<"s", "t", "a", "t", "i", "c">>, <<"a", "d", "m", "i", "n">>,
      <<"u", "s", "e", "r">>, <<"m", "e">>, <<"a", "p", "i">>,
      <<"s", "t", "a", "t">>, <<"e", "r", "r", "o", "r">> }
\* build.rs:257-261
RESERVED_CHARS ==
    { "{", "}", "|", "\\", "^", "[", "]", "`",
      ";", "/", "?", ":", "@", "&", "=", "+", "$", ",",
      " ", "<", ">", "#", "%", "\"", "'" }
Alphabetic ==
    { "a", "b", "c", "d", "e", "f", "g", "h", "i", "j", "k", "l", "m",
      "n", "o", "p", "q", "r", "s", "t", "u", "v", "w", "x", "y", "z" }
\* LanguageTag::parse of a name without "-": a primary language subtag of
\* two to eight letters
IsLanguageTag(name) ==
    /\ Len(name) >= 2
    /\ Len(name) <= 8
    /\ Range(name) \subseteq Alphabetic

\* Path::extension: after the last dot; a leading dot is part of the name
extension(name) ==
    IF LastIndex(name, ".") <= 1 THEN None
    ELSE Some(SubSeq(name, LastIndex(name, ".") + 1, Len(name)))
\* Path::file_prefix: before the first dot that is not the leading one
file_prefix(name) ==
    LET rest == Tail(name)
    IN IF FirstIndex(rest, ".") = 0 THEN name
       ELSE SubSeq(name, 1, FirstIndex(rest, "."))
\* Path::parent of a relative path
parent(path) ==
    IF LastIndex(path, "/") = 0 THEN <<>>
    ELSE SubSeq(path, 1, LastIndex(path, "/") - 1)

\* build.rs:284-288  the predicate handed to filter_entry: the walker yields
\* an entry below the root, and descends into it, only when this holds
FilterEntry(name) == name \in RESERVED_NAMES

\* templates.rs:294-310  one file of the theme's static directory; the
\* result is the map after it, or None when the loader returns an error
LoadStaticFile(tf, file) ==
    IF IsPublishable(Len(file.bytes))
    THEN LET last == file_name(file.path)[1]
             nf == new_filename(file.bytes, last)
         IN IF nf = None THEN None
            ELSE LET filename == with_file_name(file.path, nf[1].name)
                     new_name == path_relativizie(file.path, filename)
                 IN IF new_name = None THEN None
                    ELSE Some(MapInsert(tf, new_name[1],
                                        [file_hash |-> nf[1].hash,
                                         file_name |-> new_name[1],
                                         path |-> file.path]))
    ELSE Some(tf)

File(path, bytes) == [path |-> path, is_file |-> TRUE, bytes |-> bytes, children |-> <<>>]
Dir(path, children) == [path |-> path, is_file |-> FALSE, bytes |-> <<>>, children |-> children]
MdExtensions == { <<"m", "d">>, <<"h", "t", "m", "l">>, <<"m", "o", "k", "l", "o", "g">> }
IndexNames ==
    { <<"i", "n", "d", "e", "x", ".", "m", "d">>,
      <<"i", "n", "d", "e", "x", ".", "h", "t", "m", "l">>,
      <<".", "m", "o", "k", "l", "o", "g">> }

\* build.rs:398-407  the record process_static_file made, if any, goes into
\* files under its hash
InsertStatic(r, fl, ps) ==
    IF r # None
    THEN [out |-> "static", files |-> MapInsert(fl, r[1].hash, r[1].file), store |-> ps]
    ELSE [out |-> "failed to hash file!", files |-> fl, store |-> ps]

\* build.rs:305-426  the loop body for one entry the walker yields: how the
\* iteration ends, and the files map and path store after it.  The
\* node_path_store is never written and root_id never set, so the insert
\* behaviour is always AsRoot and no entry is passed over as an orphan.
\* The root has an empty relative path and no file name: the loop goes on
\* to the next entry (321-335).  What an index document or a translation
\* adds to the tree is not part of this specification.
VisitEntry(e, fl, ps) ==
    LET Same(out) == [out |-> out, files |-> fl, store |-> ps]
    IN IF file_name(e.path) = None THEN Same("continue")
       ELSE LET filename == file_name(e.path)[1]
                file_extension == extension(filename)
            IN IF file_extension = None THEN Same("Err non utf8 filename")
               ELSE IF e.is_file
               THEN IF parent(e.path) \notin ps THEN Same("Err no parent path!")
                    ELSE IF file_extension[1] \notin MdExtensions THEN Same("continue")
                    ELSE IF filename \in IndexNames THEN Same("index")
                    ELSE IF file_extension[1] \in MdExtensions
                    THEN IF IsLanguageTag(file_prefix(filename))
                         THEN Same("translation")
                         ELSE Same("orphan file!")
                    ELSE InsertStatic(process_static_file(e), fl, ps)
               ELSE IF IsLanguageTag(filename)
                    THEN Same("Err folder cannot be a language tag!")
                    ELSE IF filename \in RESERVED_NAMES
                            \/ Range(filename) \cap RESERVED_CHARS # {}
                    THEN Same("Err folder reserved word/invalid char!")
                    ELSE [out |-> "inserted", files |-> fl, store |-> ps \cup {e.path}]

IsErr(out) == out \notin {"continue", "index", "translation", "orphan file!",
                          "static", "failed to hash file!", "inserted",
                          "not yielded", "loaded", "skipped"}

ThemePaths == { <<"a", "/", "l", ".", "p">>, <<"b", "/", "l", ".", "p">> }
ThemePayloads == { <<>>, <<0>> }
ThemeStaticFiles == {File(p, b) : p \in ThemePaths, b \in ThemePayloads}
ContentEntries ==
    { Dir(<<"e", "n">>, <<>>),
      Dir(<<"m", "e">>, <<>>),
      Dir(<<"a", " ", "b">>, <<>>),
      Dir(<<"b", "1">>, <<File(<<"b", "1", "/", "l", ".", "p">>, <<0>>)>>),
      Dir(<<"c", "1">>, <<File(<<"c", "1", "/", "l", ".", "p">>, <<0>>)>>),
      File(<<"l", ".", "p">>, <<>>),
      File(<<"l", ".", "p">>, <<0>>),
      File(<<"m", "e">>, <<>>) }
\* the listings of a directory: no two entries share a path
Listings(S, n) ==
    {l \in SeqsUpTo(S, n) : \A i, j \in 1..Len(l) : l[i].path = l[j].path => i = j}

InitIngest ==
    /\ fs_tree = EmptyTree
    /\ fs_root_id = NoNode
    /\ pc = "load_theme"
    /\ passes = 0
    /\ HooksIdle
    /\ SessionIdle
    /\ AssetIdle
    /\ PassIdle
    /\ RenderIdle
    /\ TocIdle
    /\ ThemeIdle
    /\ WalkIdle
    /\ RewriteIdle
    /\ SummaryIdle
    /\ theme_static \in Listings(ThemeStaticFiles, MaxThemeFiles)
    /\ \E l \in Listings(ContentEntries, MaxEntries) : content = <<Dir(<<>>, l)>>
    /\ template_files = <<>>
    /\ files = <<>>
    /\ fs_path_store = {}
    /\ visited = <<>>

\* templates.rs:292-311  the loader after a file: r is the map with the
\* file loaded, or None when loading it returned an error
AfterStaticFile(file, r) ==
    IF r = None
    THEN /\ pc' = "theme_err"
         /\ visited' = Append(visited, [entry |-> file, out |-> "Err"])
         /\ UNCHANGED <<theme_static, template_files>>
    ELSE /\ template_files' = r[1]
         /\ theme_static' = Tail(theme_static)
         /\ visited' = Append(visited,
               [entry |-> file,
                out |-> IF r[1] = template_files THEN "skipped" ELSE "loaded"])
         /\ pc' = pc

\* templates.rs:292-311  the next file of the theme's static directory
LoadThemeStatic ==
    /\ pc = "load_theme"
    /\ theme_static # <<>>
    /\ AfterStaticFile(Head(theme_static),
                       LoadStaticFile(template_files, Head(theme_static)))
    /\ UNCHANGED <<content, files, fs_path_store>>
    /\ UNCHANGED <<fs_tree, fs_root_id, passes, hookVars, sessionVars, assetVars, passVars, renderVars, tocVars, themeVars, walkVars, rewriteVars, summaryVars>>

\* build.rs:289-300  build_site starts with the loaded theme: the entries of
\* template.files are copied into files under the theme's keys
BuildSiteStart ==
    /\ pc = "load_theme"
    /\ theme_static = <<>>
    /\ files' = template_files
    /\ pc' = "walk"
    /\ UNCHANGED <<theme_static, content, template_files, fs_path_store, visited>>
    /\ UNCHANGED <<fs_tree, fs_root_id, passes, hookVars, sessionVars, assetVars, passVars, renderVars, tocVars, themeVars, walkVars, rewriteVars, summaryVars>>

\* build.rs:304-427  the walk after the loop body ran for a yielded entry:
\* an error ends build_site, otherwise the walker descends into the entry
AfterVisit(e, r) ==
    /\ visited' = Append(visited, [entry |-> e, out |-> r.out])
    /\ files' = r.files
    /\ fs_path_store' = r.store
    /\ IF IsErr(r.out)
       THEN pc' = "walk_err" /\ content' = content
       ELSE pc' = pc /\ content' = e.children \o Tail(content)

\* build.rs:284-288, 304-427  the walker reaches its next entry: the root is
\* always yielded, an entry below it only when the filter holds; a yielded
\* directory is descended into
WalkEntry ==
    /\ pc = "walk"
    /\ content # <<>>
    /\ IF Head(content).path # <<>> /\ ~FilterEntry(file_name(Head(content).path)[1])
       THEN /\ content' = Tail(content)
            /\ visited' = Append(visited, [entry |-> Head(content), out |-> "not yielded"])
            /\ UNCHANGED <<pc, files, fs_path_store>>
       ELSE AfterVisit(Head(content), VisitEntry(Head(content), files, fs_path_store))
    /\ UNCHANGED <<theme_static, template_files>>
    /\ UNCHANGED <<fs_tree, fs_root_id, passes, hookVars, sessionVars, assetVars, passVars, renderVars, tocVars, themeVars, walkVars, rewriteVars, summaryVars>>

\* build.rs:427  the walker is exhausted
WalkEnd ==
    /\ pc = "walk"
    /\ content = <<>>
    /\ pc' = "walked"
    /\ UNCHANGED ingestVars
    /\ UNCHANGED <<fs_tree, fs_root_id, passes, hookVars, sessionVars, assetVars, passVars, renderVars, tocVars, themeVars, walkVars, rewriteVars, summaryVars>>

NextIngest == LoadThemeStatic \/ BuildSiteStart \/ WalkEntry \/ WalkEnd

(***************************************************************************)
(* The category pass of build_site over the pruned tree (SpecPasses).      *)
(* A document is a sequence of tokens, each a piece of text; the token     *)
(* "===" is the splitter.  A front matter holding the token "junk" is not  *)
(* TOML, one holding "[category]" has a category table.  Paths are kept    *)
(* relative to the content root, as the path store keeps them.             *)
(***************************************************************************)
\* build.rs:262
SPLITTER == "==="

\* std::str::from_utf8: an error (None) for bytes that are not UTF-8
from_utf8(bytes) == IF "\\xff" \in Range(bytes) THEN None ELSE Some(bytes)

\* toml::from_str::<ConfigMeta>: an error (None) when the text is not TOML,
\* otherwise the optional fields of ConfigMeta (build.rs:65-73), each set
\* when the text has its table or key
toml_from_str(cfg) ==
    IF "junk" \in Range(cfg) THEN None
    ELSE Some([category |-> IF "[category]" \in Range(cfg) THEN Some("cat_cfg") ELSE None,
               series |-> IF "[series]" \in Range(cfg) THEN Some("series_cfg") ELSE None,
               redirect |-> IF "redirect" \in Range(cfg) THEN Some("target") ELSE None,
               external |-> IF "[external]" \in Range(cfg) THEN Some("InDir") ELSE None])

\* the index documents of the model
PassDocs ==
    { <<"body">>,
      <<"\\xff">>,
      <<"junk", "===", "body">>,
      <<"title", "===", "body">>,
      <<"title", "[category]", "===", "body">>,
      <<"title", "[category]", "[series]", "===", "body">> }
NoDoc == <<>>

\* the name of the directory of each node; node 1 is the content root
DirNames ==
    << <<"c">>, <<"b">>, <<"r", ".", "x">>, <<"e">>, <<"f">>, <<"g">> >>

RECURSIVE PathOf(_, _)
\* the names from the root down to node n, the root's own name left out
PathOf(par, n) ==
    IF n = 1 THEN <<>> ELSE Append(PathOf(par, par[n]), DirNames[n])

\* the trees of up to MaxDirs directories the walk can hand over, with the
\* index document of every directory that has one
PassInputs ==
    UNION {
      { [tree |->
           [nodes |-> 1..k,
            parent |-> [n \in Nodes |-> IF n \in 2..k THEN par[n] ELSE NoNode],
            children |-> [n \in Nodes |-> IF n \in 1..k THEN ChildSeq(par, k, n) ELSE <<>>],
            data |-> [n \in Nodes |->
                        IF n \in 1..k /\ doc[n] # NoDoc THEN "Page" ELSE DataNone]],
         paths |-> [n \in 1..k |-> PathOf(par, n)],
         docs |-> doc]
        : par \in {f \in [2..k -> 1..k] : \A n \in 2..k : f[n] < n},
          doc \in [1..k -> PassDocs \cup {NoDoc}] }
      : k \in 1..MaxDirs }

RECURSIVE Yields(_, _, _)
\* build.rs:507-508  the directories the walker hands over with
\* max_depth(depths): those of the path store down to that depth
Yields(paths, depths, n) ==
    IF n > Len(paths) THEN <<>>
    ELSE (IF Len(paths[n]) <= depths THEN << <<depths, n>> >> ELSE <<>>)
           \o Yields(paths, depths, n + 1)

InitPasses ==
    /\ HooksIdle
    /\ SessionIdle
    /\ AssetIdle
    /\ IngestIdle
    /\ \E in \in PassInputs :
         /\ fs_tree = in.tree
         /\ dir_path = in.paths
         /\ node_doc = in.docs
         /\ cat_todo = Yields(in.paths, 1, 1) \o Yields(in.paths, 2, 1)
    /\ fs_root_id = 1
    /\ pc = "prune"
    /\ passes = 0
    /\ site_categories = <<>>
    /\ categories = <<>>
    /\ cat_log = <<>>
    /\ RenderIdle
    /\ TocIdle
    /\ ThemeIdle
    /\ WalkIdle
    /\ RewriteIdle
    /\ SummaryIdle

\* build.rs:510-549  the loop body for the directory of node n: how the
\* iteration ends and the category map after it.  Tree::get of a node that
\* was removed is an Err, which the unwrap turns into a panic.  With depths
\* at 2 a category config leads into the else branch of 538-546, which ends
\* the iteration for a node without a parent.
CategoryEntry(t, depths, n, doc, name, cats) ==
    LET Same(out) == [out |-> out, cats |-> cats]
    IN IF n \notin t.nodes THEN Same("panic")
       ELSE IF t.data[n] = DataNone THEN Same("continue")
       ELSE IF from_utf8(doc) = None THEN Same("Err")
       ELSE IF split_once(from_utf8(doc)[1], SPLITTER) = None THEN Same("continue")
       ELSE IF toml_from_str(split_once(from_utf8(doc)[1], SPLITTER)[1][1]) = None
            THEN Same("Err")
       ELSE IF toml_from_str(split_once(from_utf8(doc)[1], SPLITTER)[1][1])[1].category = None
            THEN Same("read")
       ELSE IF depths = 1
            THEN [out |-> "category", cats |-> MapInsert(cats, file_prefix(name), "cat_cfg")]
       ELSE IF t.parent[n] = NoNode THEN Same("continue")
       ELSE Same("depth 2")

InsertUnderAnyParent(subs, name, parent_name) == MapInsert(subs, name, parent_name)
\* build.rs:538-546  the else branch taken with depths at 2: it looks up the
\* parent and the node and writes to no map
InsertSubcategory(subs, name, parent_name) == subs

\* build.rs:507-553  the pass after the loop body ran for an entry
AfterCategoryEntry(e, r) ==
    /\ cat_log' = Append(cat_log, [depths |-> e[1], node |-> e[2], out |-> r.out])
    /\ site_categories' = r.cats
    /\ categories' = IF r.out = "depth 2"
                      THEN InsertSubcategory(categories, DirNames[e[2]],
                                             DirNames[fs_tree.parent[e[2]]])
                      ELSE categories
    /\ IF r.out \in {"panic", "Err"}
       THEN pc' = r.out /\ cat_todo' = cat_todo
       ELSE pc' = pc /\ cat_todo' = Tail(cat_todo)

\* build.rs:507-553  the category pass is handed its next directory
CategoryVisit ==
    /\ pc = "pruned"
    /\ cat_todo # <<>>
    /\ AfterCategoryEntry(Head(cat_todo),
          CategoryEntry(fs_tree, Head(cat_todo)[1], Head(cat_todo)[2],
                        node_doc[Head(cat_todo)[2]], DirNames[Head(cat_todo)[2]],
                        site_categories))
    /\ UNCHANGED <<fs_tree, fs_root_id, passes, dir_path, node_doc>>
    /\ UNCHANGED <<hookVars, sessionVars, assetVars, ingestVars, renderVars, tocVars, themeVars, walkVars, rewriteVars, summaryVars>>

\* build.rs:554-555  both depths have been walked
CategoryEnd ==
    /\ pc = "pruned"
    /\ cat_todo = <<>>
    /\ pc' = "categorized"
    /\ UNCHANGED <<fs_tree, fs_root_id, passes, passVars>>
    /\ UNCHANGED <<hookVars, sessionVars, assetVars, ingestVars, renderVars, tocVars, themeVars, walkVars, rewriteVars, summaryVars>>

NextPasses == PruneIteration \/ PruneBreak \/ CategoryVisit \/ CategoryEnd

(***************************************************************************)
(* The render loops (SpecRender): build_site's loop over the site tree     *)
(* (build.rs:558-591) and update_site_content's loop over the content      *)
(* items (injest.rs:307-456).  Documents are token sequences as above;     *)
(* update_site_content delimits the front matter with the token "+++".     *)
(***************************************************************************)
RECURSIVE splitn(_, _, _)
\* str::splitn(n, pat): at most n pieces, the last one the unsplit rest
splitn(str, n, pat) ==
    IF n = 1 \/ split_once(str, pat) = None THEN <<str>>
    ELSE <<split_once(str, pat)[1][1]>> \o splitn(split_once(str, pat)[1][2], n - 1, pat)

\* the documents handed to a render loop
SiteDocs ==
    { <<"body">>,
      <<"junk", "===", "body">>,
      <<"title", "===", "body">>,
      <<"+++", "title", "body">>,
      <<"+++", "junk", "+++", "body">>,
      <<"+++", "title", "+++", "body">> }

InitRender ==
    /\ fs_tree = EmptyTree
    /\ fs_root_id = NoNode
    /\ passes = 0
    /\ HooksIdle
    /\ SessionIdle
    /\ AssetIdle
    /\ IngestIdle
    /\ PassIdle
    /\ pc \in {"render_site", "render_items"}
    /\ render_todo \in SeqsUpTo(SiteDocs, MaxSiteDocs)
    /\ render_log = <<>>
    /\ TocIdle
    /\ ThemeIdle
    /\ WalkIdle
    /\ RewriteIdle
    /\ SummaryIdle

\* build.rs:559-591  the loop body for one endpoint of the site tree; the
\* rest of the body (572-590) is unfinished and produces no output
RenderEndpoint(file) ==
    IF from_utf8(file) = None THEN "Err"
    ELSE IF split_once(from_utf8(file)[1], SPLITTER) = None THEN "continue"
    ELSE IF toml_from_str(split_once(from_utf8(file)[1], SPLITTER)[1][1]) = None THEN "Err"
    ELSE "read"

\* injest.rs:307-456  the loop body for one markdown item
RenderItem(file_contents) ==
    IF Len(splitn(file_contents, 2, "+++")) # 4 THEN "Skipping: Bad split"
    ELSE IF toml_from_str(splitn(file_contents, 2, "+++")[2]) = None
         THEN "Skipping: header"
    ELSE "rendered"

\* build.rs:558-591, injest.rs:307-456  a loop after its body ran
AfterRender(doc, out) ==
    /\ render_log' = Append(render_log, [doc |-> doc, out |-> out])
    /\ IF out = "Err"
       THEN pc' = "Err" /\ render_todo' = render_todo
       ELSE pc' = pc /\ render_todo' = Tail(render_todo)

\* build.rs:558-591  build_site reaches the next endpoint
RenderSiteDoc ==
    /\ pc = "render_site"
    /\ render_todo # <<>>
    /\ AfterRender(Head(render_todo), RenderEndpoint(Head(render_todo)))
    /\ UNCHANGED <<fs_tree, fs_root_id, passes>>
    /\ UNCHANGED <<hookVars, sessionVars, assetVars, ingestVars, passVars, tocVars, themeVars, walkVars, rewriteVars, summaryVars>>

\* build.rs:593  Ok(())
RenderSiteEnd ==
    /\ pc = "render_site"
    /\ render_todo = <<>>
    /\ pc' = "Ok"
    /\ UNCHANGED <<fs_tree, fs_root_id, passes, renderVars>>
    /\ UNCHANGED <<hookVars, sessionVars, assetVars, ingestVars, passVars, tocVars, themeVars, walkVars, rewriteVars, summaryVars>>

\* injest.rs:307-456  update_site_content reaches the next item
RenderContentItem ==
    /\ pc = "render_items"
    /\ render_todo # <<>>
    /\ AfterRender(Head(render_todo), RenderItem(Head(render_todo)))
    /\ UNCHANGED <<fs_tree, fs_root_id, passes>>
    /\ UNCHANGED <<hookVars, sessionVars, assetVars, ingestVars, passVars, tocVars, themeVars, walkVars, rewriteVars, summaryVars>>

\* injest.rs:457  Err(())
RenderItemsEnd ==
    /\ pc = "render_items"
    /\ render_todo = <<>>
    /\ pc' = "Err(())"
    /\ UNCHANGED <<fs_tree, fs_root_id, passes, renderVars>>
    /\ UNCHANGED <<hookVars, sessionVars, assetVars, ingestVars, passVars, tocVars, themeVars, walkVars, rewriteVars, summaryVars>>

NextRender == RenderSiteDoc \/ RenderSiteEnd \/ RenderContentItem \/ RenderItemsEnd

(***************************************************************************)
(* The table of contents of a markdown body (injest.rs:339-369), SpecToc.  *)
(* A line is its characters.                                               *)
(***************************************************************************)
\* the character U+0060
GraveAccent == "\\x60"
Backticks == <<GraveAccent, GraveAccent, GraveAccent>>
Tildes == <<"~", "~", "~">>
\* str::starts_with
starts_with(line, tag) == Len(line) >= Len(tag) /\ SubSeq(line, 1, Len(tag)) = tag

ClosesOnAnyMarker(line, tag) == starts_with(line, Backticks) \/ starts_with(line, Tildes)
\* injest.rs:349  line.starts_with(tag)
ClosesFence(line, tag) == starts_with(line, tag)

RECURSIVE FenceFilter(_, _, _)
\* injest.rs:347-365  the filter over the lines, with its fence variable:
\* the indices of the lines from i on for which the closure returns true
FenceFilter(lines, i, fence) ==
    IF i > Len(lines) THEN <<>>
    ELSE IF fence # None
    THEN FenceFilter(lines, i + 1, IF ClosesFence(lines[i], fence[1]) THEN None ELSE fence)
    ELSE IF starts_with(lines[i], Backticks) THEN FenceFilter(lines, i + 1, Some(Backticks))
    ELSE IF starts_with(lines[i], Tildes) THEN FenceFilter(lines, i + 1, Some(Tildes))
    ELSE <<i>> \o FenceFilter(lines, i + 1, fence)

\* markdown_toc::Heading::from_str: Ok for a line that starts with "#"
HeadingFromStr(line) == starts_with(line, <<"#">>)

\* injest.rs:344-368  the lines that become entries of the table of contents
Toc(lines) == SelectSeq(FenceFilter(lines, 1, None), LAMBDA i : HeadingFromStr(lines[i]))

TocLines ==
    { Backticks, Tildes, Backticks \o <<"r">>, <<"#", " ", "h">>, <<"t">> }

InitToc ==
    /\ fs_tree = EmptyTree
    /\ fs_root_id = NoNode
    /\ passes = 0
    /\ HooksIdle
    /\ SessionIdle
    /\ AssetIdle
    /\ IngestIdle
    /\ PassIdle
    /\ RenderIdle
    /\ pc = "toc"
    /\ contents \in SeqsUpTo(TocLines, MaxLines)
    /\ table_of_contents = <<>>
    /\ ThemeIdle
    /\ WalkIdle
    /\ RewriteIdle
    /\ SummaryIdle

\* injest.rs:339-369  the table of contents of the body is generated
GenerateToc ==
    /\ pc = "toc"
    /\ table_of_contents' = Toc(contents)
    /\ pc' = "toc_done"
    /\ UNCHANGED <<fs_tree, fs_root_id, passes, contents>>
    /\ UNCHANGED <<hookVars, sessionVars, assetVars, ingestVars, passVars, renderVars, themeVars, walkVars, rewriteVars, summaryVars>>

NextToc == GenerateToc

(***************************************************************************)
(* Loading a theme and registering it (SpecTheme): build_site_theme        *)
(* (templates.rs:83-324) and the start of the site build (build.rs:431-    *)
(* 483).  A file of the theme directory is the subdirectory it lies in,    *)
(* its extension and whether its text parses (a template, a shortcode) or  *)
(* compiles (a script).  A SiteTheme holds the texts by kind, a text being *)
(* "ok" or "bad".  The stylesheets, scripts and static files of the theme  *)
(* are left out.                                                           *)
(***************************************************************************)
ThemeRoot == <<"theme">>
\* templates.rs:84-88  template_dir!: the subdirectory under the theme
ThemeSub(sub) == ThemeRoot \o <<"/", sub>>
\* the path the walker yields for a file of the theme
ThemePath(f) == ThemeSub(f.sub) \o <<"/", "x", ".", f.ext>>
ThemeFile(sub, ext, ok) == [sub |-> sub, ext |-> ext, ok |-> ok]
Text(f) == IF f.ok THEN "ok" ELSE "bad"
Texts(fs) == [i \in 1..Len(fs) |-> Text(fs[i])]
FilesIn(fs, sub) == SelectSeq(fs, LAMBDA f : f.sub = sub)
\* templates.rs:215-224, 242-251, 268-277  only .rhai files are scripts
Rhai(fs) == SelectSeq(fs, LAMBDA f : extension(file_name(ThemePath(f))[1]) = Some(<<"rhai">>))
\* every path_relativizie(base, path)? of a loop returns Ok
RelativizeAll(base, fs) ==
    \A i \in 1..Len(fs) : path_relativizie(base, ThemePath(fs[i])) # None

\* templates.rs:142-145  the files pushed to template_files
CollectTemplates(fs) ==
    SelectSeq(fs, LAMBDA f :
        ~(extension(file_name(ThemePath(f))[1]) # Some(<<"html">>)
          \/ extension(file_name(ThemePath(f))[1]) # Some(<<"tera">>)))

\* templates.rs:98-324  None for an Err, the theme otherwise
build_site_theme(dir) ==
    IF dir.metadata # "ok" THEN None
    ELSE IF \E i \in 1..Len(FilesIn(dir.files, "shortcodes")) :
                ~FilesIn(dir.files, "shortcodes")[i].ok THEN None
    ELSE IF ~RelativizeAll(ThemeSub("shortcodes"), FilesIn(dir.files, "shortcodes")) THEN None
    ELSE IF ~RelativizeAll(ThemeSub("templates"), FilesIn(dir.files, "templates")) THEN None
    ELSE IF ~RelativizeAll(ThemeSub("shortcodes"), Rhai(FilesIn(dir.files, "functions"))) THEN None
    ELSE IF ~RelativizeAll(<<"filters">>, Rhai(FilesIn(dir.files, "filters"))) THEN None
    ELSE IF ~RelativizeAll(<<"testers">>, Rhai(FilesIn(dir.files, "testers"))) THEN None
    ELSE Some([tera_templates |-> Texts(CollectTemplates(FilesIn(dir.files, "templates"))),
               shortcode |-> Texts(FilesIn(dir.files, "shortcodes")),
               functions |-> Texts(Rhai(FilesIn(dir.files, "functions"))),
               filters |-> Texts(Rhai(FilesIn(dir.files, "filters"))),
               testers |-> Texts(Rhai(FilesIn(dir.files, "testers")))])

\* build.rs:431-483  the templates are parsed and the scripts compiled, each
\* with a `?`
register_theme(t) ==
    IF "bad" \in Range(t.tera_templates) THEN "Err"
    ELSE IF "bad" \in Range(t.filters) THEN "Err"
    ELSE IF "bad" \in Range(t.testers) THEN "Err"
    ELSE IF "bad" \in Range(t.functions) THEN "Err"
    ELSE IF "bad" \in Range(t.shortcode) THEN "Err"
    ELSE "render"

ThemeEntries ==
    { ThemeFile("templates", "html", TRUE), ThemeFile("templates", "html", FALSE),
      ThemeFile("templates", "tera", FALSE), ThemeFile("templates", "txt", TRUE),
      ThemeFile("shortcodes", "html", TRUE), ThemeFile("shortcodes", "html", FALSE),
      ThemeFile("functions", "rhai", FALSE), ThemeFile("filters", "rhai", TRUE),
      ThemeFile("testers", "txt", TRUE) }
ThemeDirs ==
    { [metadata |-> m, files |-> fs] :
        m \in {"missing", "malformed", "ok"}, fs \in SeqsUpTo(ThemeEntries, MaxThemeFiles) }
Snippets == SeqsUpTo({"ok", "bad"}, MaxSnippets)
\* the themes a serialized theme turns into (templates.rs:31-45)
SiteThemes ==
    [tera_templates : Snippets, shortcode : Snippets, functions : Snippets,
     filters : Snippets, testers : Snippets]

InitTheme ==
    /\ fs_tree = EmptyTree
    /\ fs_root_id = NoNode
    /\ passes = 0
    /\ HooksIdle
    /\ SessionIdle
    /\ AssetIdle
    /\ IngestIdle
    /\ PassIdle
    /\ RenderIdle
    /\ TocIdle
    /\ WalkIdle
    /\ RewriteIdle
    /\ SummaryIdle
    /\ \/ pc = "load" /\ theme_dir \in {Some(d) : d \in ThemeDirs} /\ template = None
       \/ pc = "loaded" /\ theme_dir = None /\ template \in {Some(t) : t \in SiteThemes}

\* templates.rs:83-324  the theme directory is loaded
LoadTheme ==
    /\ pc = "load"
    /\ template' = build_site_theme(theme_dir[1])
    /\ pc' = IF build_site_theme(theme_dir[1]) = None THEN "Err" ELSE "loaded"
    /\ UNCHANGED <<fs_tree, fs_root_id, passes, theme_dir>>
    /\ UNCHANGED <<hookVars, sessionVars, assetVars, ingestVars, passVars, renderVars, tocVars, walkVars, rewriteVars, summaryVars>>

\* build.rs:431-483  build_site registers the theme; after it come the
\* passes and the render loop
RegisterTheme ==
    /\ pc = "loaded"
    /\ pc' = register_theme(template[1])
    /\ UNCHANGED <<fs_tree, fs_root_id, passes, themeVars, walkVars, rewriteVars, summaryVars>>
    /\ UNCHANGED <<hookVars, sessionVars, assetVars, ingestVars, passVars, renderVars, tocVars, walkVars, rewriteVars, summaryVars>>

NextTheme == LoadTheme \/ RegisterTheme

(***************************************************************************)
(* The loop body of the walk with the data of the nodes (SpecWalk): the    *)
(* body of build.rs:304-427 for every entry of a content directory, in the *)
(* order a walker that passes every entry on yields them.  The data of a   *)
(* node is None or the kind of its index document with its translations.   *)
(***************************************************************************)
\* build.rs:358-363
path_type(ext) ==
    IF ext = <<"m", "d">> THEN "Page"
    ELSE IF ext = <<"h", "t", "m", "l">> THEN "PreBuilt"
    ELSE "Moklog"

AttachToAny(d, tag, tl) ==
    Some([typ |-> IF d # None THEN d[1].typ ELSE tl.typ,
          translations |-> MapInsert(IF d # None THEN d[1].translations ELSE <<>>, tag, tl)])
\* build.rs:384-394  the translation goes into the translations of the data
\* the node has; a node without data is left as it is
Attach(d, tag, tl) ==
    IF d # None
    THEN Some([typ |-> d[1].typ, translations |-> MapInsert(d[1].translations, tag, tl)])
    ELSE d

\* build.rs:367-397, 419-425  what the loop body that ended with r does to
\* the data of the nodes
VisitLeaf(e, r, ld) ==
    LET With(out, leaf) == [out |-> out, files |-> r.files, store |-> r.store, leaf |-> leaf]
    IN IF r.out = "index"
       THEN With("index",
                 MapInsert(ld, parent(e.path),
                           Some([typ |-> path_type(extension(file_name(e.path)[1])[1]),
                                 translations |-> <<>>])))
       ELSE IF r.out = "translation"
       THEN With(IF Attach(ld[parent(e.path)], file_prefix(file_name(e.path)[1]),
                           [typ |-> path_type(extension(file_name(e.path)[1])[1])])
                      = ld[parent(e.path)]
                 THEN "orphan file!" ELSE "translation",
                 MapInsert(ld, parent(e.path),
                           Attach(ld[parent(e.path)], file_prefix(file_name(e.path)[1]),
                                  [typ |-> path_type(extension(file_name(e.path)[1])[1])])))
       ELSE IF r.out = "inserted"
       THEN With("inserted", MapInsert(ld, e.path, None))
       ELSE With(r.out, ld)

WalkDirNames == { <<"b">>, <<"x", ".", "y">> }
WalkFiles(d) ==
    { File(d \o <<"/", "i", "n", "d", "e", "x", ".", "m", "d">>, <<0>>),
      File(d \o <<"/", "i", "n", "d", "e", "x", ".", "h", "t", "m", "l">>, <<0>>),
      File(d \o <<"/", ".", "m", "o", "k", "l", "o", "g">>, <<0>>),
      File(d \o <<"/", "e", "n", ".", "m", "d">>, <<0>>),
      File(d \o <<"/", "l", ".", "p">>, <<0>>) }
WalkEntries ==
    UNION { { Dir(d, l) : l \in Listings(WalkFiles(d), MaxDirFiles) } : d \in WalkDirNames }
      \cup { File(<<"i", "n", "d", "e", "x", ".", "m", "d">>, <<0>>) }

InitWalk ==
    /\ fs_tree = EmptyTree
    /\ fs_root_id = NoNode
    /\ passes = 0
    /\ HooksIdle
    /\ SessionIdle
    /\ AssetIdle
    /\ PassIdle
    /\ RenderIdle
    /\ TocIdle
    /\ ThemeIdle
    /\ pc = "walk"
    /\ theme_static = <<>>
    /\ template_files = <<>>
    /\ \E l \in Listings(WalkEntries, MaxWalkDirs) : content = <<Dir(<<>>, l)>>
    /\ files = <<>>
    /\ fs_path_store = {}
    /\ visited = <<>>
    /\ leaf_data = <<>>
    /\ RewriteIdle
    /\ SummaryIdle

\* build.rs:304-427  the walk after the loop body ran for an entry
AfterLeaf(e, r) ==
    /\ AfterVisit(e, r)
    /\ leaf_data' = r.leaf

\* build.rs:304-427  the loop body runs for the next entry
VisitWalkEntry ==
    /\ pc = "walk"
    /\ content # <<>>
    /\ AfterLeaf(Head(content),
                 VisitLeaf(Head(content), VisitEntry(Head(content), files, fs_path_store),
                           leaf_data))
    /\ UNCHANGED <<theme_static, template_files>>
    /\ UNCHANGED <<fs_tree, fs_root_id, passes, hookVars, sessionVars, assetVars, passVars, renderVars, tocVars, themeVars, rewriteVars, summaryVars>>

NextWalk == VisitWalkEntry \/ WalkEnd

(***************************************************************************)
(* The rewrite of the links of a document (SpecRewrite):                   *)
(* static_file_rewrite_element (processor.rs:43-68).  An element is its    *)
(* href and src attributes, each None or the characters of its value.      *)
(***************************************************************************)
\* url::Url::parse without a base: Ok for a value that starts with a scheme,
\* letters followed by ":"
UrlParses(link) ==
    /\ FirstIndex(link, ":") > 1
    /\ Range(SubSeq(link, 1, FirstIndex(link, ":") - 1)) \subseteq Alphabetic

\* util.rs:13-21  mmap_load!: the bytes of the mapping, none when the file
\* cannot be mapped
mmap_load(m) == IF m = None THEN <<>> ELSE m[1]

\* processor.rs:58-67  the attribute value for a link that is not a URL:
\* None when the element is left
RewrittenLink(link, file_read) ==
    IF new_filename(file_read, link) = None THEN None
    ELSE Some(<<"/">> \o new_filename(file_read, link)[1].name)

\* processor.rs:48-67  an attribute, a value for it
set_attribute(el, attr, value) == [el EXCEPT ![attr] = Some(value)]

\* processor.rs:54-67  the element after the function looked at the link
RewriteLink(el, attr, r) ==
    IF UrlParses(el[attr][1]) \/ r = None THEN el ELSE set_attribute(el, attr, r[1])

\* processor.rs:43-68
static_file_rewrite_element(el, m) ==
    IF el.href # None /\ el.src = None
    THEN RewriteLink(el, "href", RewrittenLink(el.href[1], mmap_load(m)))
    ELSE IF el.href = None /\ el.src # None
    THEN RewriteLink(el, "src", RewrittenLink(el.src[1], mmap_load(m)))
    ELSE el

Links ==
    { <<"l", ".", "p">>, <<"l", "p">>, <<"a", "/", "l", ".", "p">>, <<"m", ":", "l", ".", "p">> }
Attribute == {None} \cup {Some(l) : l \in Links}

InitRewrite ==
    /\ fs_tree = EmptyTree
    /\ fs_root_id = NoNode
    /\ passes = 0
    /\ HooksIdle
    /\ SessionIdle
    /\ AssetIdle
    /\ IngestIdle
    /\ PassIdle
    /\ RenderIdle
    /\ TocIdle
    /\ ThemeIdle
    /\ WalkIdle
    /\ pc = "rewrite"
    /\ element \in [href : Attribute, src : Attribute]
    /\ mapped \in {None} \cup {Some(b) : b \in Payloads}
    /\ rewritten = <<>>
    /\ SummaryIdle

\* processor.rs:43-68  the handler runs for the element
RewriteElement ==
    /\ pc = "rewrite"
    /\ rewritten' = static_file_rewrite_element(element, mapped)
    /\ pc' = "rewritten"
    /\ UNCHANGED <<fs_tree, fs_root_id, passes, element, mapped>>
    /\ UNCHANGED <<hookVars, sessionVars, assetVars, ingestVars, passVars, renderVars, tocVars, themeVars, walkVars, summaryVars>>

NextRewrite == RewriteElement

(***************************************************************************)
(* The summary of a document (SpecSummary): the summary_generator of       *)
(* html_post_processor (processor.rs:80-103, 121).  A document is a        *)
(* sequence of items, an element with its tag and the text in it, or a     *)
(* text outside of every element (tag "").  A text is the number of its    *)
(* characters and the number of its bytes in UTF-8.                        *)
(***************************************************************************)
SummaryLimit == 200

CountChars(txt) == txt.chars
\* processor.rs:98  txt.as_str().len(): the length of a str is in bytes
text_len(txt) == txt.bytes

RECURSIVE Summarize(_, _, _, _)
\* processor.rs:85-100  the element handler and the text handler over the
\* items from i on, with character_count and skip: the indices of the items
\* that are not removed
Summarize(doc, i, character_count, skip) ==
    IF i > Len(doc) THEN <<>>
    ELSE IF doc[i].tag = ""
    THEN <<i>> \o Summarize(doc, i + 1, character_count + text_len(doc[i].text), skip)
    ELSE IF skip \/ (character_count > SummaryLimit /\ doc[i].tag = "p")
    THEN Summarize(doc, i + 1, character_count + text_len(doc[i].text), TRUE)
    ELSE <<i>> \o Summarize(doc, i + 1, character_count + text_len(doc[i].text), skip)

Ascii(n) == [chars |-> n, bytes |-> n]
TwoByte(n) == [chars |-> n, bytes |-> 2 * n]
SummaryTexts == { Ascii(100), TwoByte(110) }
SummaryItems == [tag : {"p", "div", ""}, text : SummaryTexts]

InitSummary ==
    /\ fs_tree = EmptyTree
    /\ fs_root_id = NoNode
    /\ passes = 0
    /\ HooksIdle
    /\ SessionIdle
    /\ AssetIdle
    /\ IngestIdle
    /\ PassIdle
    /\ RenderIdle
    /\ TocIdle
    /\ ThemeIdle
    /\ WalkIdle
    /\ RewriteIdle
    /\ pc = "summarize"
    /\ document \in SeqsUpTo(SummaryItems, MaxItems)
    /\ summary = <<>>

\* processor.rs:121  rewrite_str(data_in, summary_generator)
MakeSummary ==
    /\ pc = "summarize"
    /\ summary' = Summarize(document, 1, 0, FALSE)
    /\ pc' = "summarized"
    /\ UNCHANGED <<fs_tree, fs_root_id, passes, document>>
    /\ UNCHANGED <<hookVars, sessionVars, assetVars, ingestVars, passVars, renderVars, tocVars, themeVars, walkVars, rewriteVars>>

NextSummary == MakeSummary

NextPrune == PruneSkip \/ PruneIteration \/ PruneBreak

vars == <<pruneVars, hookVars, sessionVars, assetVars, ingestVars, passVars, renderVars, tocVars, themeVars, walkVars, rewriteVars, summaryVars>>

SpecPrune == InitPrune /\ [][NextPrune]_vars
SpecHooks == InitHooks /\ [][NextHooks]_vars
SpecSession == InitSession /\ [][NextSession]_vars
SpecAsset == InitAsset /\ [][NextAsset]_vars
SpecIngest == InitIngest /\ [][NextIngest]_vars
SpecPasses == InitPasses /\ [][NextPasses]_vars
SpecRender == InitRender /\ [][NextRender]_vars
SpecToc == InitToc /\ [][NextToc]_vars
SpecTheme == InitTheme /\ [][NextTheme]_vars
SpecWalk == InitWalk /\ [][NextWalk]_vars
SpecRewrite == InitRewrite /\ [][NextRewrite]_vars
SpecSummary == InitSummary /\ [][NextSummary]_vars

(***************************************************************************)
(* Claims about the prune loop (SpecPrune).                                *)
(***************************************************************************)

\* C1: pruning is idempotent: once a prune pass has run (or the loop has
\* ended), running the pass again on the tree it produced removes no node
\* and leaves the tree unchanged.
C1_PruneIdempotent ==
    (fs_root_id # NoNode /\ (passes >= 1 \/ pc = "pruned"))
        => PrunePass(fs_tree, fs_root_id) = fs_tree

\* the pass has been re-run on its own output, on a tree that kept nodes
C1_Witness == passes >= 2 /\ Cardinality(fs_tree.nodes) >= 2

\* C2: after the prune loop has finished every node other than the root has
\* DocumentData, and the root is never removed, with or without data.
C2_PrunedNodesHaveData ==
    /\ fs_root_id # NoNode => fs_root_id \in fs_tree.nodes
    /\ pc = "pruned" =>
         \A n \in fs_tree.nodes \ {fs_root_id} : fs_tree.data[n] # DataNone

\* the loop removed something, ended, and a node below the root survived
C2_Witness ==
    /\ pc = "pruned"
    /\ passes >= 1
    /\ fs_tree.nodes \ {fs_root_id} # {}

(***************************************************************************)
(* Claims about the invocation counters (SpecHooks).                       *)
(***************************************************************************)
SuccBefore(log, i) == Cardinality({j \in 1..(i - 1) : log[j][1] = "S"})
Returned(log) == Cardinality({j \in 1..Len(log) : log[j][1] \in {"S", "F"}})

\* C9 as stated: for each hook the k-th call receives k - 1 (0, 1, 2, ...)
\* and the counter has been incremented by one after each call that ended.
C9_Original ==
    \A h \in Registered :
        /\ \A i \in 1..Len(LoadsOf(hooklog[h])) : LoadsOf(hooklog[h])[i][2] = i - 1
        /\ times_exec[h] = Returned(hooklog[h])

\* C9 (amended): the counter is read before it is incremented: the value a
\* call receives is the number of calls of that hook that had returned Ok
\* when it read the counter, so the first call receives 0 and the values
\* passed never decrease; a call that returns Ok adds exactly 1, a call
\* whose script fails adds nothing.
C9_ReadBeforeIncrement ==
    \A h \in Registered :
        LET log == hooklog[h]
            loads == LoadsOf(log)
        IN /\ loads # <<>> => loads[1][2] = 0
           /\ \A i, j \in 1..Len(loads) : i < j => loads[i][2] <= loads[j][2]
           /\ \A i \in 1..Len(log) : log[i][1] = "L" => log[i][2] = SuccBefore(log, i)
           /\ times_exec[h] = SuccBefore(log, Len(log) + 1)

\* one hook was called three times; a call failed and the values 0, 0, 1
\* were passed
C9_Witness ==
    \E h \in Registered :
        /\ Len(LoadsOf(hooklog[h])) = 3
        /\ LoadsOf(hooklog[h])[2][2] = 0
        /\ LoadsOf(hooklog[h])[3][2] = 1
        /\ \E i \in 1..Len(hooklog[h]) : hooklog[h][i][1] = "F"

\* C10: the counter is local to one hook: a registration creates the
\* counter at 0, and a step that changes a hook's counter is the return of
\* an invocation of that very hook, adds 1 and leaves the counter of every
\* other registered hook unchanged.
C10_CounterLocal ==
    [][ /\ Registered \subseteq Registered'
        /\ \A h \in Registered' \ Registered : times_exec'[h] = 0
        /\ \A h \in Registered :
             times_exec'[h] # times_exec[h] =>
               /\ times_exec'[h] = times_exec[h] + 1
               /\ \E r \in Renders :
                    /\ inv[r].pc = "loaded" /\ inv[r].hook = h
                    /\ inv'[r].pc = "idle"
               /\ \A g \in Registered \ {h} : times_exec'[g] = times_exec[g]
      ]_vars

\* hooks have been invoked and their counters differ
C10_Witness ==
    \E h, g \in Registered :
        /\ h[1] # g[1]
        /\ times_exec[h] = 2
        /\ times_exec[g] = 1
        /\ \E k \in Registered \ {h, g} : times_exec[k] = 0

(***************************************************************************)
(* Claims about build sessions (SpecSession).                              *)
(***************************************************************************)

\* C8: at most one build session is running at any time, and a request
\* does not start its tree walk while another build is in progress.
C8_AtMostOneBuild ==
    /\ Cardinality({q \in Requests : session[q] \in RunningPhases}) <= 1
    /\ \A q \in Requests :
         session[q] = "content_walk" =>
           \A o \in Requests \ {q} : session[o] \notin RunningPhases

(***************************************************************************)
(* Claims about the asset store's functions (SpecAsset).                   *)
(***************************************************************************)
DiffersInOneByte(b1, b2) ==
    /\ Len(b1) = Len(b2)
    /\ Cardinality({i \in 1..Len(b1) : b1[i] # b2[i]}) = 1

file_stem(name) ==
    IF LastIndex(name, ".") <= 1 THEN name
    ELSE SubSeq(name, 1, LastIndex(name, ".") - 1)

B64Index(c) == CHOOSE i \in 0..63 : Base64Alphabet[i + 1] = c
\* the eight bytes a padded group of twelve base64 characters stands for
Base64Decode12(e) ==
    LET v == [i \in 1..11 |-> B64Index(e[i])]
        Triple(k) == <<v[k] * 4 + v[k + 1] \div 16,
                       (v[k + 1] % 16) * 16 + v[k + 2] \div 4,
                       (v[k + 2] % 4) * 64 + v[k + 3]>>
    IN Triple(1) \o Triple(5)
         \o <<v[9] * 4 + v[10] \div 16, (v[10] % 16) * 16 + v[11] \div 4>>

\* no part of the name between its dots is empty
OrdinaryName(name) ==
    /\ name[1] # "."
    /\ name[Len(name)] # "."
    /\ \A k \in 1..(Len(name) - 1) : ~(name[k] = "." /\ name[k + 1] = ".")

\* C5 as stated: the result is stem.base64.ext with ext the extension of
\* the file name and stem the name without it.
C5_Original ==
    \A i \in 1..Len(reg) :
        (extension(asset_name) # None /\ OrdinaryName(asset_name)) =>
            /\ reg[i].nf # None
            /\ reg[i].nf[1].name =
                 file_stem(asset_name) \o <<".">>
                   \o SubSeq(reg[i].nf[1].name, Len(file_stem(asset_name)) + 2,
                             Len(file_stem(asset_name)) + 13)
                   \o <<".">> \o extension(asset_name)[1]

\* C5 (amended): for a file name without a dot new_filename returns None;
\* otherwise it returns prefix.base64.rest where prefix is the part of the
\* name before its first dot, rest everything after that dot, and base64
\* the twelve characters that encode the eight little-endian bytes of the
\* content hash.
C5_NameAroundFirstDot ==
    \A i \in 1..Len(reg) :
        IF "." \notin Range(asset_name) THEN reg[i].nf = None
        ELSE /\ reg[i].nf # None
             /\ \E k \in 1..Len(asset_name) :
                  /\ asset_name[k] = "."
                  /\ \A j \in 1..(k - 1) : asset_name[j] # "."
                  /\ Len(reg[i].nf[1].name) = Len(asset_name) + 13
                  /\ SubSeq(reg[i].nf[1].name, 1, k) = SubSeq(asset_name, 1, k)
                  /\ reg[i].nf[1].name[k + 13] = "."
                  /\ SubSeq(reg[i].nf[1].name, k + 14, Len(reg[i].nf[1].name))
                       = SubSeq(asset_name, k + 1, Len(asset_name))
                  /\ reg[i].nf[1].name[k + 12] = "="
                  /\ LET h == Base64Decode12(SubSeq(reg[i].nf[1].name, k + 1, k + 12))
                     IN /\ reg[i].nf[1].hash = <<h[8], h[7], h[6], h[5], h[4], h[3], h[2], h[1]>>
                        /\ reg[i].nf[1].hash = seahash(reg[i].bytes)

\* a name with more than one dot has been given its new name
C5_Witness ==
    /\ Len(reg) >= 1
    /\ Cardinality({k \in 1..Len(asset_name) : asset_name[k] = "."}) >= 2
    /\ OrdinaryName(asset_name)
    /\ reg[1].nf # None

(***************************************************************************)
(* Claims about the theme's static files and the content walk (SpecIngest).*)
(***************************************************************************)
ForbiddenName(name) ==
    \/ name \in RESERVED_NAMES
    \/ IsLanguageTag(name)
    \/ Range(name) \cap RESERVED_CHARS # {}

\* the directories of the content root below the root itself
ContentDirs ==
    {visited[i].entry : i \in {j \in 1..Len(visited) :
        /\ ~visited[j].entry.is_file
        /\ visited[j].entry.path # <<>>}}

\* C3: when some directory of the content root has a reserved name, a name
\* that parses as a language tag or a name with a reserved character, the
\* build never completes successfully with that directory passed over.
C3_ForbiddenDirectoryFailsBuild ==
    pc = "walked" => \A d \in ContentDirs : ~ForbiddenName(file_name(d.path)[1])

ZeroLengthFile(e) == e.is_file /\ e.bytes = <<>>

RECURSIVE FilesUnder(_)
\* the files of a listing, those inside its directories included
FilesUnder(l) ==
    IF l = <<>> THEN {}
    ELSE (IF Head(l).is_file THEN {Head(l)} ELSE FilesUnder(Head(l).children))
           \cup FilesUnder(Tail(l))
IngestedFiles == FilesUnder([i \in 1..Len(visited) |-> visited[i].entry])
DistinctContents == {f.bytes : f \in {g \in IngestedFiles : g.bytes # <<>>}}

\* C7: after the theme's static files and the content root have been
\* ingested the store holds exactly one record per distinct byte content.
C7_OneRecordPerContent ==
    pc = "walked" => Cardinality(DOMAIN files) = Cardinality(DistinctContents)

(***************************************************************************)
(* Claims about the category pass (SpecPasses).                            *)
(***************************************************************************)
\* the document has a front matter, and it is not TOML
FrontMatterFails(doc) ==
    /\ from_utf8(doc) # None
    /\ split_once(doc, SPLITTER) # None
    /\ toml_from_str(split_once(doc, SPLITTER)[1][1]) = None

\* C11: a front-matter failure is local: when the category pass reads a
\* node whose index document has a front matter that fails to parse, the
\* node is skipped and build_site does not end with an error.
C11_FrontMatterFailureLocal ==
    \A i \in 1..Len(cat_log) :
        (cat_log[i].node \in fs_tree.nodes /\ FrontMatterFails(node_doc[cat_log[i].node]))
            => (cat_log[i].out = "continue" /\ pc \notin {"Err", "panic"})

(***************************************************************************)
(* Claims about the render loops (SpecRender).                             *)
(***************************************************************************)
\* the payload has no splitter where build_site looks for one
MalformedDelimiter(doc) == split_once(doc, SPLITTER) = None
\* a front matter between two "+++" that is TOML
WellFormedItem(doc) ==
    /\ Len(doc) >= 3
    /\ doc[1] = "+++"
    /\ split_once(Tail(doc), "+++") # None
    /\ toml_from_str(split_once(Tail(doc), "+++")[1][1]) # None

\* C12: in build_site a document with a malformed delimiter or a front
\* matter that fails to parse is skipped without ending the build and every
\* other document is read on; in update_site_content every document with a
\* well-formed front matter is rendered.
C12_BadDocumentSkipped ==
    /\ pc \in {"render_site", "Ok", "Err"} =>
         \A i \in 1..Len(render_log) :
             IF MalformedDelimiter(render_log[i].doc) \/ FrontMatterFails(render_log[i].doc)
             THEN render_log[i].out = "continue"
             ELSE render_log[i].out = "read"
    /\ pc \in {"render_items", "Err(())"} =>
         \A i \in 1..Len(render_log) :
             WellFormedItem(render_log[i].doc) => render_log[i].out = "rendered"

(***************************************************************************)
(* Claims about the table of contents (SpecToc).                           *)
(***************************************************************************)
\* the fence marker a line starts with, <<>> when it starts with none
Marker(line) ==
    IF starts_with(line, Backticks) THEN Backticks
    ELSE IF starts_with(line, Tildes) THEN Tildes
    ELSE <<>>
\* the first line after line i that starts with the marker of line i,
\* Len(lines) + 1 when there is none
CloseOf(lines, i) ==
    LET closers == {k \in (i + 1)..Len(lines) : starts_with(lines[k], Marker(lines[i]))}
    IN IF closers = {} THEN Len(lines) + 1
       ELSE CHOOSE k \in closers : \A l \in closers : k <= l
RECURSIVE Openers(_, _)
\* the lines from p on that open a fence: the first line with a marker, and
\* the openers after the line that closes its fence
Openers(lines, p) ==
    LET marked == {i \in p..Len(lines) : Marker(lines[i]) # <<>>}
        first == CHOOSE i \in marked : \A l \in marked : i <= l
    IN IF marked = {} THEN {}
       ELSE {first} \cup Openers(lines, CloseOf(lines, first) + 1)

\* C13: no line after a line that opens a fence and before the next line
\* that starts with the same marker is passed on as a heading; after a
\* fence that is never closed no line is, and a line of the other marker
\* does not close the fence.
C13_TocFenceAware ==
    pc = "toc_done" =>
        \A i \in Openers(contents, 1) :
            \A j \in (i + 1)..(CloseOf(contents, i) - 1) :
                j \notin Range(table_of_contents)

\* a backtick fence is never closed, a ~~~ line and then a heading follow inside
\* it, and a heading before the fence is in the table
C13_Witness ==
    /\ pc = "toc_done"
    /\ table_of_contents # <<>>
    /\ \E i \in Openers(contents, 1) :
         /\ Marker(contents[i]) = Backticks
         /\ CloseOf(contents, i) = Len(contents) + 1
         /\ \E j, k \in (i + 1)..Len(contents) :
              j < k /\ Marker(contents[j]) = Tildes /\ HeadingFromStr(contents[k])

(***************************************************************************)
(* Claims about the maps and the order of the passes (SpecPasses).         *)
(***************************************************************************)
\* the index document parses and carries a category table
HasCategoryConfig(doc) ==
    /\ doc # NoDoc
    /\ from_utf8(doc) # None
    /\ split_once(doc, SPLITTER) # None
    /\ toml_from_str(split_once(doc, SPLITTER)[1][1]) # None
    /\ toml_from_str(split_once(doc, SPLITTER)[1][1])[1].category # None

\* C14: when the category pass has walked both depths, every directory at
\* depth 1 whose index document carries a category table is a key of the
\* category map, and every such directory at depth 2 is a key of the second
\* map, associated with the name of its parent directory.
C14_CategoryMaps ==
    pc = "categorized" =>
        \A n \in DOMAIN dir_path :
            HasCategoryConfig(node_doc[n]) =>
                /\ Len(dir_path[n]) = 1 => dir_path[n][1] \in DOMAIN site_categories
                /\ Len(dir_path[n]) = 2 =>
                     /\ dir_path[n][2] \in DOMAIN categories
                     /\ categories[dir_path[n][2]] = dir_path[n][1]

BrokenDir(dir) ==
    \/ dir.metadata # "ok"
    \/ \E i \in 1..Len(dir.files) :
         /\ ~dir.files[i].ok
         /\ \/ dir.files[i].sub \in {"templates", "shortcodes"}
               /\ dir.files[i].ext \in {"html", "tera"}
            \/ dir.files[i].sub \in {"functions", "filters", "testers"}
               /\ dir.files[i].ext = "rhai"
BrokenTheme(t) ==
    "bad" \in Range(t.tera_templates) \cup Range(t.shortcode) \cup Range(t.functions)
              \cup Range(t.filters) \cup Range(t.testers)

\* C16: the render loop is never reached with a theme whose metadata is
\* missing or malformed or one of whose templates, shortcodes or scripts
\* does not parse or compile.
C16_ThemeFailsFast ==
    pc = "render" =>
        /\ theme_dir # None => ~BrokenDir(theme_dir[1])
        /\ ~BrokenTheme(template[1])

\* C17: update_site_content returns an error only when one of its steps
\* failed; a session that went through all of its items returns its diff.
C17_SessionReturnsDiff ==
    pc = "Err(())" => \E i \in 1..Len(render_log) : render_log[i].out = "Err"

(***************************************************************************)
(* Claims about the loop body of the walk (SpecWalk).                      *)
(***************************************************************************)
\* the file is named as an index document
IndexFile(e) == e.is_file /\ file_name(e.path)[1] \in IndexNames
\* the file is named <language-tag>.md, .html or .moklog
TranslationFile(e) ==
    /\ e.is_file
    /\ ~IndexFile(e)
    /\ extension(file_name(e.path)[1]) # None
    /\ extension(file_name(e.path)[1])[1] \in MdExtensions
    /\ IsLanguageTag(file_prefix(file_name(e.path)[1]))
\* the entries the loop body ran for
VisitedEntries == {visited[i].entry : i \in 1..Len(visited)}

\* C18: when the walk has ended, every non-empty file it visited in a stored
\* directory that is neither an index document nor a translation has a
\* record in the files map.
C18_OtherFilesForwarded ==
    pc = "walked" =>
        \A e \in VisitedEntries :
            (e.is_file /\ ~IndexFile(e) /\ ~TranslationFile(e) /\ e.bytes # <<>>)
                => \E h \in DOMAIN files : files[h].path = e.path

\* the kind the claim gives the index document of that name
KindOf(name) ==
    IF name = <<"i", "n", "d", "e", "x", ".", "m", "d">> THEN "Page"
    ELSE IF name = <<"i", "n", "d", "e", "x", ".", "h", "t", "m", "l">> THEN "PreBuilt"
    ELSE "Moklog"

\* C19: a stored directory for which the walk visited one index document has
\* data of that document's kind on its node, and a stored directory for
\* which it visited none has no data.
C19_IndexBecomesData ==
    \A d \in fs_path_store :
        LET indexes == {e \in VisitedEntries : IndexFile(e) /\ parent(e.path) = d}
        IN /\ \A e \in indexes :
                indexes = {e} =>
                    /\ leaf_data[d] # None
                    /\ leaf_data[d][1].typ = KindOf(file_name(e.path)[1])
           /\ indexes = {} => leaf_data[d] = None

\* C20: the step that visits a translation file of a stored directory adds
\* the translation to the node's data when the node has data at that moment;
\* when it has none, the data of every node stays as it is, the file is
\* logged as an orphan and the walk goes on.
C20_TranslationNeedsData ==
    [][ (pc = "walk" /\ content # <<>> /\ TranslationFile(Head(content))
         /\ parent(Head(content).path) \in fs_path_store)
          => LET e == Head(content)
                 d == parent(e.path)
                 tag == file_prefix(file_name(e.path)[1])
             IN IF leaf_data[d] # None
                THEN /\ leaf_data'[d] # None
                     /\ tag \in DOMAIN leaf_data'[d][1].translations
                     /\ leaf_data'[d][1].typ = leaf_data[d][1].typ
                     /\ visited'[Len(visited')].out = "translation"
                     /\ pc' = "walk"
                ELSE /\ leaf_data' = leaf_data
                     /\ visited'[Len(visited')].out = "orphan file!"
                     /\ pc' = "walk"
                     /\ content' = Tail(content) ]_vars

\* a translation was visited before the index document of its directory:
\* it was logged as an orphan, the walk went on to the index document, and
\* the node has data without a translation
C20_Witness ==
    \E i \in 1..Len(visited) :
        /\ TranslationFile(visited[i].entry)
        /\ visited[i].out = "orphan file!"
        /\ i < Len(visited)
        /\ visited[i + 1].out = "index"
        /\ leaf_data[parent(visited[i].entry.path)] # None
        /\ leaf_data[parent(visited[i].entry.path)][1].translations = <<>>

ConfigsSet(doc) ==
    LET config == toml_from_str(split_once(doc, SPLITTER)[1][1])[1]
    IN {f \in {"category", "series", "redirect", "external"} : config[f] # None}

\* C22: no directory whose index document sets more than one configuration
\* in its front matter is recorded as a category.
C22_ConfigsExclusive ==
    \A i \in 1..Len(cat_log) :
        cat_log[i].out = "category" =>
            Cardinality(ConfigsSet(node_doc[cat_log[i].node])) <= 1

(***************************************************************************)
(* Claims about the post-processing of a document.                         *)
(***************************************************************************)
\* the one link of the element, None when it has none or two
LinkOf(el) ==
    IF el.href # None /\ el.src = None THEN el.href
    ELSE IF el.href = None /\ el.src # None THEN el.src
    ELSE None

\* C23: an element whose link is a URL keeps its attributes, and so does an
\* element whose relative link refers to a file that cannot be read or that
\* is empty.
C23_UnrewritableLinkLeft ==
    (pc = "rewritten" /\ LinkOf(element) # None) =>
        /\ UrlParses(LinkOf(element)[1]) => rewritten = element
        /\ (~UrlParses(LinkOf(element)[1]) /\ mmap_load(mapped) = <<>>)
              => rewritten = element

RECURSIVE LengthBefore(_, _, _)
\* the length of the texts of the items before item i, in the unit given
\* ("chars" or "bytes")
LengthBefore(doc, i, unit) ==
    IF i <= 1 THEN 0 ELSE LengthBefore(doc, i - 1, unit) + doc[i - 1].text[unit]
\* the first <p> that starts when the texts before it are longer than the
\* limit, Len(doc) + 1 when there is none
CutAt(doc, unit) ==
    LET late == {i \in 1..Len(doc) :
                    doc[i].tag = "p" /\ LengthBefore(doc, i, unit) > SummaryLimit}
    IN IF late = {} THEN Len(doc) + 1
       ELSE CHOOSE i \in late : \A j \in late : i <= j

C25_PruneTerminates ==
    [][ (pc = "prune" /\ passes' = passes + 1) => fs_tree' # fs_tree ]_vars

\* C26: no step of the prune loop removes a node that has data.
C26_DataNodesKept ==
    [][ \A n \in fs_tree.nodes :
            fs_tree.data[n] # DataNone => n \in fs_tree'.nodes ]_vars

\* C27: once the prune loop has ended, every node the path store has a path
\* for is a node of the tree, and the category pass does not panic.
C27_StoreRefersToTree ==
    pc # "prune" =>
        /\ DOMAIN dir_path \subseteq fs_tree.nodes
        /\ \A i \in 1..Len(cat_log) : cat_log[i].out # "panic"

(***************************************************************************)
(* More claims about the invocation counters (SpecHooks).                  *)
(***************************************************************************)
\* C28: for a hook none of whose invocations failed, no two invocations
\* receive the same counter value, and the counter is the number of the
\* invocations that have returned.
C28_DistinctCounterValues ==
    \A h \in Registered :
        (\A i \in 1..Len(hooklog[h]) : hooklog[h][i][1] # "F") =>
            /\ \A i, j \in 1..Len(LoadsOf(hooklog[h])) :
                 LoadsOf(hooklog[h])[i][2] = LoadsOf(hooklog[h])[j][2] => i = j
            /\ times_exec[h] = Returned(hooklog[h])

C30_CategoryKeysAreDepthOne ==
    /\ \A k \in DOMAIN site_categories :
         \E n \in DOMAIN dir_path : Len(dir_path[n]) = 1 /\ dir_path[n][1] = k
    /\ \A i \in 1..Len(cat_log) :
         /\ cat_log[i].out = "category" => Len(dir_path[cat_log[i].node]) = 1
         /\ cat_log[i].out = "depth 2" => Len(dir_path[cat_log[i].node]) # 1

====
